---- MODULE Spec2Model ----
(***************************************************************************)
(* Model of linkml_runtime/utils/dataclass_patch.py: the patched           *)
(* `dataclass` decorator (its inner `wrap`) and `is_direct_dataclass`.     *)
(*                                                                         *)
(* Class objects are numbered in creation order.  A class object has an    *)
(* address `id` (what Python's id() returns: unique among the objects      *)
(* alive at the same time, free for reuse once the object is collected),   *)
(* a base class, and possibly an own `__declared_dataclasses__` attribute  *)
(* that refers to a set object on the heap.  Set objects are numbered by   *)
(* the class whose wrap() call created them.                               *)
(***************************************************************************)
EXTENDS Integers, FiniteSets, Sequences, TLC

\* ---- bounds ----
MaxClasses == 3

None == 0
Objs == 1..MaxClasses
\* addresses: as many as class objects are ever created, so that a new
\* object can always be given an address that was never used
Ids == 1..MaxClasses

\* the keyword options of dataclass(), lines 48-50
OptionNames ==
    {"init", "repr", "eq", "order", "unsafe_hash", "frozen", "match_args",
     "kw_only", "slots", "weakref_slot"}

Options == [OptionNames -> BOOLEAN]

\* the default values of the options, lines 48-50
Defaults ==
    [init |-> TRUE, repr |-> TRUE, eq |-> TRUE, order |-> FALSE,
     unsafe_hash |-> FALSE, frozen |-> FALSE, match_args |-> TRUE,
     kw_only |-> FALSE, slots |-> FALSE, weakref_slot |-> FALSE]

\* the option values the callers of the model pass: the defaults,
\* slots=True with weakref_slot=True (a weak-reference slot needs slots),
\* and order=True with eq=False
OptionInputs ==
    {Defaults,
     [Defaults EXCEPT !.slots = TRUE, !.weakref_slot = TRUE],
     [Defaults EXCEPT !.eq = FALSE, !.order = TRUE]}

VARIABLES
    created,     \* number of class objects created so far
    alive,       \* the class objects not yet garbage-collected
    addr,        \* addr[o] = id(o) of a live class object (None otherwise)
    bases,       \* bases[o] = the base class of o, None for a root class
    declared,    \* declared[o] = set object bound to o.__dict__['__declared_dataclasses__'], or None
    heap,        \* heap[s] = contents (ids) of set object s
    applied,     \* history: wrap(o) has been called
    returned,    \* history: the synthesizer returned o to a wrap() call
    failed,      \* history: _process_class raised inside wrap(o)
    last,        \* the last call and its outcome
    threads      \* threads[t] = the wrap() call thread t is executing, line by line

vars == <<created, alive, addr, bases, declared, heap, applied, returned,
          failed, last, threads>>

\* the threads that call wrap() line by line
Threads == {1, 2}

NoOpts == Defaults

\* lines 75-76: the arguments of the call dataclasses._process_class(cls,
\* init, repr, eq, order, unsafe_hash, frozen, match_args, kw_only, slots)
process_class_args(O) ==
    [init |-> O.init, repr |-> O.repr, eq |-> O.eq, order |-> O.order,
     unsafe_hash |-> O.unsafe_hash, frozen |-> O.frozen,
     match_args |-> O.match_args, kw_only |-> O.kw_only, slots |-> O.slots]

\* a call, its outcome, and the arguments _process_class was given when the
\* call reached it (synth)
Call(op, cls, opts, outcome, result, synth) ==
    [op |-> op, cls |-> cls, opts |-> opts, outcome |-> outcome,
     result |-> result, synth |-> synth,
     args |-> IF synth THEN process_class_args(opts)
              ELSE process_class_args(Defaults)]

\* ---- attribute lookup ----

\* getattr(cls, '__declared_dataclasses__', None): the attribute of the
\* nearest class on the inheritance chain (cls first) that has it.
RECURSIVE getattr_in(_, _, _)
getattr_in(decl, bs, o) ==
    IF o = None THEN None
    ELSE IF decl[o] # None THEN decl[o]
    ELSE getattr_in(decl, bs, bs[o])

getattr_declared(o) == getattr_in(declared, bases, o)

\* the contents of the set that getattr finds, set() when there is none
seen_of(o) ==
    IF getattr_declared(o) = None THEN {} ELSE heap[getattr_declared(o)]

\* is_direct_dataclass(cls)
is_direct_dataclass(o) == addr[o] \in seen_of(o)

\* ---- the environment: class definition and collection ----

\* addresses not held by a live object
FreeIds == Ids \ {addr[o] : o \in alive}

\* free addresses that a set still holds (left by a collected class)
StaleIds == FreeIds \cap UNION {heap[s] : s \in Objs}

\* the addresses id() of a new object can be.  The allocator may hand out
\* any free address; the free addresses that no set holds occur nowhere in
\* the state and are interchangeable, so the least of them stands for all.
NewIds ==
    StaleIds \cup
    (IF FreeIds \ StaleIds = {} THEN {}
     ELSE {CHOOSE i \in FreeIds \ StaleIds :
              \A j \in FreeIds \ StaleIds : i <= j})

\* `class New(parent): ...` (parent = None for a root class)
DefineClass(parent, i) ==
    /\ created < MaxClasses
    /\ parent \in alive \cup {None}
    /\ i \in NewIds
    /\ LET n == created + 1 IN
        /\ created' = n
        /\ alive' = alive \cup {n}
        /\ addr' = [addr EXCEPT ![n] = i]
        /\ bases' = [bases EXCEPT ![n] = parent]
        /\ last' = Call("define", n, NoOpts, "ok", n, FALSE)
    /\ UNCHANGED <<declared, heap, applied, returned, failed, threads>>

\* set objects still referenced by a class in `live`
Referenced(decl, live) == {decl[o] : o \in live} \ {None}

\* the last reference to class o is dropped and o is collected; a class
\* stays alive while a subclass refers to it
DestroyClass(o) ==
    /\ o \in alive
    /\ \A d \in alive : bases[d] # o
    /\ \A t \in Threads : threads[t].cls # o
    /\ alive' = alive \ {o}
    /\ addr' = [addr EXCEPT ![o] = None]
    /\ bases' = [bases EXCEPT ![o] = None]
    /\ declared' = [declared EXCEPT ![o] = None]
    /\ heap' = [s \in Objs |->
                 IF s \in Referenced(declared', alive') THEN heap[s] ELSE {}]
    /\ applied' = [applied EXCEPT ![o] = FALSE]
    /\ returned' = [returned EXCEPT ![o] = FALSE]
    /\ failed' = [failed EXCEPT ![o] = FALSE]
    /\ last' = Call("destroy", o, NoOpts, "ok", None, FALSE)
    /\ UNCHANGED <<created, threads>>

\* ---- dataclass(cls, **options) -> wrap(cls) ----

\* line 67-68: seen = getattr(...); `seen is None`
seen_is_None(o) == getattr_declared(o) = None

\* variant: membership tested in the class's own attribute only
already_processed_own(o) ==
    declared[o] # None /\ addr[o] \in heap[declared[o]]

\* line 71: `elif id(cls) in seen` -- only reached when seen is not None
already_processed(o) == ~seen_is_None(o) /\ addr[o] \in seen_of(o)

\* variant: a class that inherits a set gets a new one of its own
declared_after_lookup_shadow(o) ==
    IF declared[o] = None THEN [declared EXCEPT ![o] = o] ELSE declared

\* lines 68-70: a new set() is bound to cls only when the lookup found
\* none; a set found on an ancestor is kept as `seen`
declared_after_lookup(o) ==
    IF seen_is_None(o) THEN [declared EXCEPT ![o] = o] ELSE declared

\* the set object that the local variable `seen` refers to at line 74
seen_object(o) == IF seen_is_None(o) THEN o ELSE getattr_declared(o)

\* variant: the id is added only to a set the call created itself
heap_after_add_own_only(o) ==
    IF getattr_declared(o) = None
    THEN [heap EXCEPT ![o] = {addr[o]}]
    ELSE heap

\* variant: the set is emptied before the id is added
heap_after_add_reset(o) ==
    [heap EXCEPT ![IF getattr_declared(o) = None THEN o
                   ELSE getattr_declared(o)] = {addr[o]}]

\* line 74: seen.add(id(cls))
heap_after_add(o) ==
    [heap EXCEPT ![seen_object(o)] =
        (IF seen_is_None(o) THEN {} ELSE heap[seen_object(o)]) \cup {addr[o]}]

\* variant: the add is undone when _process_class raises
heap_after_process_rollback(o, out) ==
    IF out = "raise" THEN heap ELSE heap_after_add(o)

\* lines 74-76: nothing undoes the add when _process_class raises (the call
\* is not inside a try block), so the set is the same for every outcome
heap_after_process(o, out) == heap_after_add(o)

\* dataclasses._process_class rejects order=True with eq=False (ValueError)
InvalidOptionCombination(O) == O.order /\ ~O.eq

\* lines 75-76: what dataclasses._process_class(cls, ...) can do:
\*   "same"    return cls itself, mutated in place
\*   "replace" return a new class object (slots=True builds a new class from
\*             cls.__name__, cls.__bases__ and a copy of cls.__dict__)
\*   "raise"   raise (invalid options, inconsistent field defaults, ...)
process_class_outcomes(O) ==
    IF InvalidOptionCombination(O) THEN {"raise"}
    ELSE IF O.slots THEN {"replace", "raise"}
    ELSE {"same", "raise"}

wrap(o, O) ==
    /\ o \in alive
    /\ applied' = [applied EXCEPT ![o] = TRUE]
    /\ UNCHANGED threads
    /\ \/ \* lines 71-73: fields have already been processed
          /\ already_processed(o)
          /\ last' = Call("apply", o, O, "ok", o, FALSE)
          /\ UNCHANGED <<created, alive, addr, bases, declared, heap,
                         returned, failed>>
       \/ \* lines 68-70, 74-76
          /\ ~already_processed(o)
          /\ \E out \in process_class_outcomes(O) :
               /\ heap' = heap_after_process(o, out)
               /\ \/ /\ out = "same"
                     /\ declared' = declared_after_lookup(o)
                     /\ returned' = [returned EXCEPT ![o] = TRUE]
                     /\ last' = Call("apply", o, O, "ok", o, TRUE)
                     /\ UNCHANGED <<created, alive, addr, bases, failed>>
                  \/ /\ out = "raise"
                     /\ declared' = declared_after_lookup(o)
                     /\ failed' = [failed EXCEPT ![o] = TRUE]
                     /\ last' = Call("apply", o, O, "raise", None, TRUE)
                     /\ UNCHANGED <<created, alive, addr, bases, returned>>
                  \/ /\ out = "replace"
                     /\ created < MaxClasses
                     /\ \E i \in NewIds :
                          LET n == created + 1 IN
                          /\ created' = n
                          /\ alive' = alive \cup {n}
                          /\ addr' = [addr EXCEPT ![n] = i]
                          /\ bases' = [bases EXCEPT ![n] = bases[o]]
                          /\ declared' =
                               [declared_after_lookup(o) EXCEPT
                                   ![n] = declared_after_lookup(o)[o]]
                          /\ returned' = [returned EXCEPT ![n] = TRUE]
                          /\ last' = Call("apply", o, O, "ok", n, TRUE)
                     /\ UNCHANGED failed

\* variant: the default set is bound to the class (setdefault-like)
declared_after_query_bound(o) ==
    IF getattr_declared(o) = None THEN [declared EXCEPT ![o] = o]
    ELSE declared

\* line 89: the default set() of getattr is a temporary; it is not bound to
\* the class
declared_after_query(o) == declared

\* a call of is_direct_dataclass(cls)
IsDirectCall(o) ==
    /\ o \in alive
    /\ declared' = declared_after_query(o)
    /\ last' = Call("is_direct", o, NoOpts, "ok",
                    IF is_direct_dataclass(o) THEN 1 ELSE 0, FALSE)
    /\ UNCHANGED <<created, alive, addr, bases, heap,
                   applied, returned, failed, threads>>

\* ---- wrap(cls) executed line by line by concurrent threads ----

\* a thread that is not inside wrap()
Idle == [pc |-> "idle", cls |-> None, seen |-> None, first |-> FALSE,
         clean |-> FALSE, peers |-> 0, synth |-> 0]

\* thread u is between the first and the last line of wrap()
Running(u) == threads[u].pc \notin {"idle", "done"}

\* the number of calls counted as overlapping one call is capped here
MaxPeers == 2

\* thread t calls wrap(o); no other thread is inside wrap() for the same
\* class.  `first` remembers that wrap was never called on o before,
\* `clean` that no set held the id of o when the call began, and `peers`
\* counts the calls of other threads that overlap with this one.
Begin(t, o) ==
    /\ threads[t].pc = "idle"
    /\ o \in alive
    /\ \A u \in Threads : threads[u].cls # o
    /\ threads' =
         [u \in Threads |->
            IF u = t
            THEN [pc |-> "lookup", cls |-> o, seen |-> None,
                  first |-> ~applied[o],
                  clean |-> addr[o] \notin UNION {heap[s] : s \in Objs},
                  peers |-> Cardinality({v \in Threads \ {t} : Running(v)}),
                  synth |-> 0]
            ELSE IF Running(u) /\ threads[u].peers < MaxPeers
            THEN [threads[u] EXCEPT !.peers = @ + 1]
            ELSE threads[u]]
    /\ applied' = [applied EXCEPT ![o] = TRUE]
    /\ UNCHANGED <<created, alive, addr, bases, declared, heap, returned,
                   failed, last>>

\* line 67: seen = getattr(cls, _DECLARED_DATA_CLASSES, None)
Lookup(t) ==
    /\ threads[t].pc = "lookup"
    /\ threads' = [threads EXCEPT ![t].seen = getattr_declared(threads[t].cls),
                                  ![t].pc = "test"]
    /\ UNCHANGED <<created, alive, addr, bases, declared, heap, applied,
                   returned, failed, last>>

\* lines 68-73: bind a new set when `seen` is None, return cls when its id
\* is in `seen`, go on to line 74 otherwise
Test(t) ==
    LET o == threads[t].cls
        sn == threads[t].seen
    IN
    /\ threads[t].pc = "test"
    /\ IF sn = None
       THEN /\ declared' = [declared EXCEPT ![o] = o]
            /\ heap' = [heap EXCEPT ![o] = {}]
            /\ threads' = [threads EXCEPT ![t].seen = o, ![t].pc = "add"]
       ELSE /\ UNCHANGED <<declared, heap>>
            /\ threads' = [threads EXCEPT ![t].pc =
                              IF addr[o] \in heap[sn] THEN "done" ELSE "add"]
    /\ UNCHANGED <<created, alive, addr, bases, applied, returned, failed,
                   last>>

\* line 74: seen.add(id(cls))
Add(t) ==
    LET o == threads[t].cls
        sn == threads[t].seen
    IN
    /\ threads[t].pc = "add"
    /\ heap' = [heap EXCEPT ![sn] = @ \cup {addr[o]}]
    /\ threads' = [threads EXCEPT ![t].pc = "process"]
    /\ UNCHANGED <<created, alive, addr, bases, declared, applied, returned,
                   failed, last>>

\* lines 75-76: return dataclasses._process_class(cls, ...)
Process(t) ==
    LET o == threads[t].cls IN
    /\ threads[t].pc = "process"
    /\ threads' = [threads EXCEPT ![t].pc = "done",
                                  ![t].synth = threads[t].synth + 1]
    /\ \E O \in OptionInputs : \E out \in process_class_outcomes(O) :
          \/ /\ out \in {"same", "raise"}
             /\ UNCHANGED <<created, alive, addr, bases, declared>>
          \/ /\ out = "replace"
             /\ created < MaxClasses
             /\ \E i \in NewIds :
                  LET n == created + 1 IN
                  /\ created' = n
                  /\ alive' = alive \cup {n}
                  /\ addr' = [addr EXCEPT ![n] = i]
                  /\ bases' = [bases EXCEPT ![n] = bases[o]]
                  /\ declared' = [declared EXCEPT ![n] = declared[o]]
    /\ UNCHANGED <<heap, applied, returned, failed, last>>

\* the call of thread t has ended and the caller has taken its result
Return(t) ==
    /\ threads[t].pc = "done"
    /\ threads' = [threads EXCEPT ![t] = Idle]
    /\ UNCHANGED <<created, alive, addr, bases, declared, heap, applied,
                   returned, failed, last>>

Init ==
    /\ created = 0
    /\ alive = {}
    /\ addr = [o \in Objs |-> None]
    /\ bases = [o \in Objs |-> None]
    /\ declared = [o \in Objs |-> None]
    /\ heap = [o \in Objs |-> {}]
    /\ applied = [o \in Objs |-> FALSE]
    /\ returned = [o \in Objs |-> FALSE]
    /\ failed = [o \in Objs |-> FALSE]
    /\ last = Call("none", None, NoOpts, "ok", None, FALSE)
    /\ threads = [t \in Threads |-> Idle]

Next ==
    \/ \E p \in Objs \cup {None}, i \in Ids : DefineClass(p, i)
    \/ \E o \in Objs : DestroyClass(o)
    \/ \E o \in Objs, O \in OptionInputs : wrap(o, O)
    \/ \E o \in Objs : IsDirectCall(o)

Spec == Init /\ [][Next]_vars

\* classes are defined and collected while two threads call wrap() on
\* different classes, one line at a time
NextConc ==
    \/ \E p \in Objs \cup {None}, i \in Ids : DefineClass(p, i)
    \/ \E o \in Objs : DestroyClass(o)
    \/ \E t \in Threads, o \in Objs : Begin(t, o)
    \/ \E t \in Threads : Lookup(t)
    \/ \E t \in Threads : Test(t)
    \/ \E t \in Threads : Add(t)
    \/ \E t \in Threads : Process(t)
    \/ \E t \in Threads : Return(t)

SpecConc == Init /\ [][NextConc]_vars

\* ---- relations used by the properties ----

RECURSIVE IsAncestor(_, _)
\* a is a proper ancestor of d
IsAncestor(a, d) ==
    IF d = None \/ bases[d] = None THEN FALSE
    ELSE bases[d] = a \/ IsAncestor(a, bases[d])

Unrelated(x, y) == x # y /\ ~IsAncestor(x, y) /\ ~IsAncestor(y, x)

\* the step just taken is a call wrap(o)
ApplyStep(o) == last'.op = "apply" /\ last'.cls = o

\* C1 (as claimed): when wrap(C, O) ran the synthesizer and returned R
\* normally, the directly following wrap(R, O) with the same options returns
\* R normally and does not run the synthesizer again.
C1_Idempotence ==
    [][ ( /\ last.op = "apply" /\ last.outcome = "ok" /\ last.synth
          /\ ApplyStep(last.result) /\ last'.opts = last.opts )
        => ( /\ last'.outcome = "ok"
             /\ last'.result = last.result
             /\ ~last'.synth ) ]_vars

\* C2 (as claimed): a class Derived whose base is an augmented class (one a
\* wrap call returned) and that was never passed to wrap itself is not
\* direct, while its base, if it was passed to wrap, is direct.
C2_DirectVsInherited ==
    \A b \in alive, d \in alive :
        (bases[d] = b /\ returned[b] /\ ~applied[d])
        => ( /\ applied[b] => is_direct_dataclass(b)
             /\ ~is_direct_dataclass(d) )

\* C3 (as claimed): after a wrap(C, O) that was rejected because O is an
\* invalid option combination, C's identity is not recorded: C is not direct.
C3_ValidationBeforeMutation ==
    ( /\ last.op = "apply" /\ last.outcome = "raise"
      /\ InvalidOptionCombination(last.opts) )
    => ~is_direct_dataclass(last.cls)

\* C4 (as claimed): once the synthesizer raised inside wrap(C), a later
\* wrap(C) runs the synthesizer again or reports a previously-failed
\* condition; it never returns normally without synthesis.
C4_NoSilentSuccessOnRetry ==
    [][ \A o \in Objs :
          (failed[o] /\ ApplyStep(o))
          => (last'.synth \/ last'.outcome = "previously_failed") ]_vars

WasReturned(o) ==
    \/ returned[o]
    \/ last.op = "apply" /\ last.outcome = "ok" /\ last.result = o

\* C6 (as claimed): when Alias is an object that a wrap call returned, a
\* wrap(Alias, O') returns Alias normally without running the synthesizer,
\* and Alias is direct before and after the call.
C6_ReWrapping ==
    [][ \A o \in Objs :
          (WasReturned(o) /\ ApplyStep(o))
          => ( /\ is_direct_dataclass(o)
               /\ last'.outcome = "ok" /\ last'.result = o /\ ~last'.synth
               /\ is_direct_dataclass(o)' ) ]_vars

\* C7: a call wrap(X) does not change is_direct_dataclass(Y) for a live
\* class Y that is neither an ancestor nor a descendant of X.
C7_IndependentRegistries ==
    [][ \A x \in Objs, y \in alive :
          (ApplyStep(x) /\ Unrelated(x, y) /\ y \in alive')
          => (is_direct_dataclass(y)' = is_direct_dataclass(y)) ]_vars

\* C7 witness: wrap(X) has just run the synthesizer for X while a direct
\* sibling Y shares the set of their augmented base.
C7_Witness ==
    \E x \in alive, y \in alive :
        /\ x # y /\ bases[x] # None /\ bases[x] = bases[y]
        /\ declared[x] = None /\ declared[y] = None
        /\ is_direct_dataclass(bases[x]) /\ is_direct_dataclass(y)
        /\ last.op = "apply" /\ last.cls = x /\ last.synth

\* the step is a wrap(o) that gets past the already-processed test on a
\* class that has no set of its own but inherits one
InheritedApplyStep(o) ==
    /\ ApplyStep(o)
    /\ declared[o] = None /\ getattr_declared(o) # None
    /\ addr[o] \notin seen_of(o)

\* C8 (as claimed): wrap(D) on a class that inherits a set binds a new set
\* to D that holds D's id only, and leaves the ancestor's set unchanged.
C8_Shadowing ==
    [][ \A o \in Objs :
          InheritedApplyStep(o)
          => ( /\ declared'[o] # None
               /\ declared'[o] # getattr_declared(o)
               /\ heap'[declared'[o]] = {addr[o]}
               /\ heap'[getattr_declared(o)] = heap[getattr_declared(o)] ) ]_vars

\* C8 (amended): wrap(D) on a class that inherits a set binds no set to D;
\* D's id is added to the inherited set and no other set changes.
C8_SharedRegistry ==
    [][ \A o \in Objs :
          InheritedApplyStep(o)
          => ( /\ declared'[o] = None
               /\ heap' = [heap EXCEPT ![getattr_declared(o)] =
                                          @ \cup {addr[o]}] ) ]_vars

\* C8 witness: wrap(D) ran the synthesizer for a class without a set of its
\* own, and D's id sits in the set of its base next to the base's id.
C8_Witness ==
    \E o \in alive :
        /\ last.op = "apply" /\ last.cls = o /\ last.synth
        /\ declared[o] = None /\ bases[o] # None
        /\ declared[bases[o]] # None
        /\ {addr[o], addr[bases[o]]} \subseteq heap[declared[bases[o]]]

C10_ShortCircuit ==
    [][ \A o \in Objs :
          (o \in alive /\ is_direct_dataclass(o) /\ ApplyStep(o))
          => ( /\ last'.outcome = "ok" /\ last'.result = o /\ ~last'.synth
               /\ heap' = heap /\ declared' = declared
               /\ alive' = alive /\ addr' = addr /\ bases' = bases ) ]_vars

\* C10 witness: a wrap with an invalid option combination returned a
\* subclass recorded in an inherited set, whose own synthesis had succeeded.
C10_Witness ==
    /\ last.op = "apply" /\ last.cls \in alive
    /\ last.outcome = "ok" /\ ~last.synth
    /\ InvalidOptionCombination(last.opts)
    /\ ~failed[last.cls]
    /\ declared[last.cls] = None

\* the value the synthesizer works with for option n: the argument it was
\* given, or its own default (False for weakref_slot) when none was given
Received(call, n) ==
    IF n \in DOMAIN call.args THEN call.args[n] ELSE Defaults[n]

\* C11 (as claimed): on every wrap(C, O) that reaches _process_class, the
\* synthesizer works with the value given in O for each of the ten options.
C11_OptionPassThrough ==
    (last.op = "apply" /\ last.synth)
    => \A n \in OptionNames : Received(last, n) = last.opts[n]

\* C12 (as claimed): a live class is direct only if wrap was called on that
\* class itself; an id left by a collected class never makes another class
\* direct.
C12_IdentityNotConfused ==
    \A o \in alive : is_direct_dataclass(o) => applied[o]

\* C13 (as claimed): the id of a live class is in a set exactly when wrap
\* was called on that class while that set was the one reachable from it
\* (the set reachable from a class never changes once wrap was called on it).
C13_ExactMembership ==
    \A o \in alive, s \in Referenced(declared, alive) :
        (addr[o] \in heap[s]) <=> (applied[o] /\ getattr_declared(o) = s)

\* C14: no step removes an id from a set: every set that is still bound to
\* a live class after a step holds at least the ids it held before.
C14_RegistriesOnlyGrow ==
    [][ \A s \in Objs :
          s \in Referenced(declared', alive') => heap[s] \subseteq heap'[s]
      ]_vars

\* C14 witness: a wrap call has just added an id to a set shared by several
\* classes, which now holds at least two ids.
C14_Witness ==
    /\ last.op = "apply" /\ last.synth /\ last.cls \in alive
    /\ getattr_declared(last.cls) # None
    /\ Cardinality(seen_of(last.cls)) >= 2

\* C16 (as claimed): the class a wrap call returns normally is direct, and
\* a directly following wrap of it with the same options does not run the
\* synthesizer.
C16_ReturnedIsDirect ==
    [][ /\ (last'.op = "apply" /\ last'.outcome = "ok")
           => LET r == last'.result
                  sn == getattr_in(declared', bases', r)
              IN  sn # None /\ addr'[r] \in heap'[sn]
        /\ ( /\ last.op = "apply" /\ last.outcome = "ok"
             /\ ApplyStep(last.result) /\ last'.opts = last.opts )
           => ~last'.synth ]_vars

\* C17: a call is_direct_dataclass(C) changes no set and binds no set to
\* any class; for a class with no reachable set it returns False and the
\* class still has no reachable set afterwards.
C17_PureQuery ==
    [][ \A o \in Objs :
          (last'.op = "is_direct" /\ last'.cls = o)
          => ( /\ heap' = heap /\ declared' = declared
               /\ alive' = alive /\ addr' = addr /\ bases' = bases
               /\ getattr_declared(o) = None
                  => ( /\ last'.result = 0
                       /\ getattr_in(declared', bases', o) = None ) ) ]_vars

\* C17 witness: is_direct_dataclass was called on a live class with no
\* reachable set and returned False.
C17_Witness ==
    /\ last.op = "is_direct" /\ last.cls \in alive
    /\ getattr_declared(last.cls) = None
    /\ last.result = 0

\* the calls of threads t and u are complete, each was the first wrap() call
\* on its class, and they overlapped with each other only (each counts one
\* peer) or ran one after the other (no peer)
PairOfCalls(t, u) ==
    /\ t # u
    /\ threads[t].pc = "done" /\ threads[u].pc = "done"
    /\ threads[t].first /\ threads[u].first
    /\ threads[t].peers <= 1 /\ threads[t].peers = threads[u].peers

\* the synthesizer ran exactly once in the call of thread t and its class
\* is direct
OnceAndDirect(t) ==
    threads[t].synth = 1 /\ is_direct_dataclass(threads[t].cls)

\* C15 (as claimed): when two threads have each completed a wrap() call on
\* a different class, the two calls overlapping with no other call, then
\* whatever the interleaving of their steps the synthesizer ran exactly once
\* for each class and both classes are direct.
C15_NoCoordinationNeeded ==
    \A t \in Threads, u \in Threads :
        PairOfCalls(t, u) => (OnceAndDirect(t) /\ OnceAndDirect(u))

\* Reachable under SpecConc (its negation is not an invariant): a call that
\* overlapped with one other call only, on a class whose id was in no set,
\* ran the synthesizer and still left its class not direct.  The other call
\* had looked up `seen` (None) before a third call bound a set to a common
\* ancestor and bound its own set afterwards, which hides the ancestor's
\* set that this call added its id to.
LostDirectness ==
    \E t \in Threads :
        /\ threads[t].pc = "done" /\ threads[t].first /\ threads[t].clean
        /\ threads[t].peers = 1 /\ threads[t].synth = 1
        /\ ~is_direct_dataclass(threads[t].cls)

\* Two calls alone do not disturb each other: the property above holds for
\* every pair of calls that overlap with each other only (each counts one
\* peer) or with no call at all, on classes whose id was in no set when the
\* call began.
IsolatedPairHarmless ==
    \A t \in Threads, u \in Threads :
        (PairOfCalls(t, u) /\ threads[t].clean /\ threads[u].clean)
        => (OnceAndDirect(t) /\ OnceAndDirect(u))
====
